---- MODULE Spec2Model ----
(***************************************************************************)
(* RDPAGDALProvider (msc_pygeoapi/provider/rdpa_gdal.py): the coverage     *)
(* query engine.  One provider instance holds self.data, self.file_list    *)
(* and self.filename; query() is modelled as a sequence of steps, one per  *)
(* block of the method, so that the order of validation, file resolution    *)
(* and raster I/O is visible and two calls can be interleaved.             *)
(***************************************************************************)
EXTENDS Integers, Sequences, FiniteSets, TLC

\* ---------------------------------------------------------------- bounds
\* Number of raster files of the variable on disk; file i is the file whose
\* name carries time stamp i, so 1..NumFiles is the sorted full file list.
NumFiles == 3
\* Number of bands in every raster file.
NumBands == 2

\* Latest hour (counted from an arbitrary origin) that a run of the raster
\* drill process may name as time_begin or time_end.
MaxHour == 4
\* Most features in a hotspots file, and most files 'add' finds in a
\* directory.
MaxFeatures == 2
MaxFilesToProcess == 3

\* ------------------------------------------------------ program constants
\* self._coverage_properties['x_axis_label'] and ['y_axis_label']
x_axis_label == "x"
y_axis_label == "y"

\* ------------------------------------------------------------ input sets
Files == 1..NumFiles
\* Time stamps a caller may ask for: one per file, and one matching no file.
Times == 1..(NumFiles + 1)

RECURSIVE Range(_, _)
Range(a, b) == IF a > b THEN <<>> ELSE <<a>> \o Range(a + 1, b)

AllFiles == Range(1, NumFiles)

None == <<>>

\* properties: no band, one band (possibly outside the file), the first two.
BandLists == {<<>>, <<1>>, <<2>>, <<1, 2>>, <<NumBands + 1>>}

TheBBox == <<-100, 40, -90, 50>>
BBoxes == {<<>>, TheBBox}

AxisRange(a) == IF a = x_axis_label THEN <<1, 5>> ELSE <<2, 7>>
SubsetChoices ==
    {[a \in D |-> AxisRange(a)] :
        D \in {{}, {x_axis_label}, {y_axis_label},
               {x_axis_label, y_axis_label}}}

\* A single time stamp that is not written as '%Y-%m-%dT%HZ' (line 192),
\* for instance with minutes and seconds.
Malformed == 0

\* datetime_: None, a single time stamp <<t>>, or a range <<begin, end>>.
Datetimes == {None} \cup {<<t>> : t \in Times \cup {Malformed}}
                    \cup {p \in Times \X Times : p[1] <= p[2]}

Formats == {"json", "native"}

QueryInputs ==
    [properties : BandLists, subsets : SubsetChoices, bbox : BBoxes,
     datetime_ : Datetimes, format_ : Formats]

\* Calls that may be in flight at the same time on one provider instance.
SeqReqs == {1}
ConcReqs == {1, 2}

\* Inputs of the interleaved calls: time selection only.
ConcInputs ==
    [properties : {<<1>>}, subsets : {[a \in {} |-> AxisRange(a)]},
     bbox : {<<>>},
     datetime_ : {None, <<1>>, <<2>>, <<NumFiles + 1>>, <<1, 2>>},
     format_ : Formats]

VARIABLES
    data,        \* self.data: the file the next rasterio.open(self.data) opens
    file_list,   \* self.file_list
    filename,    \* self.filename
    req,         \* per call of query(): its arguments, locals and position
    instance,    \* the provider object: its definition and how __init__ ended
    drill,       \* raster_drill_weather(): one run of the raster drill process
    vigil,       \* generate_vigilance: one call of get_new_array()
    loader       \* raqdps_fw_ce_hotspots: one run of the 'add' command

vars == <<data, file_list, filename, req, instance, drill, vigil, loader>>

provider == <<data, file_list, filename, req, instance>>
others == <<drill, vigil, loader>>

\* ------------------------------------------------------------- helpers
Max(a, b) == IF a >= b THEN a ELSE b

Last(s) == s[Len(s)]

IsRange(dt) == Len(dt) = 2

NoResult == [kind |-> "none", bands |-> <<>>, count |-> 0]

IdleReq ==
    [pc |-> "idle",
     properties |-> <<>>, subsets |-> [a \in {} |-> AxisRange(a)],
     bbox |-> <<>>, datetime_ |-> None, format_ |-> "json",
     shapes |-> <<>>, date_file_list |-> <<>>,
     indexes |-> <<>>, src |-> 0, out_image |-> <<>>, count |-> 0,
     id |-> 0, dest |-> <<>>, result |-> NoResult,
     resolver_calls |-> 0, opened |-> <<>>, series_failed |-> FALSE,
     resolved |-> 0, raised_at |-> "", mismatched |-> {},
     handles |-> <<>>, src1_peak |-> 0, transforms |-> 0,
     meta_bbox |-> <<>>, out_meta |-> <<>>, container |-> <<>>,
     data0 |-> 0, file_list0 |-> <<>>]

\* no run of the raster drill process, of get_new_array, of 'add'
IdleDrill ==
    [pc |-> "idle", fh_int |-> 0, time_begin |-> 0, time_end |-> 0,
     model_run |-> 0, format_ |-> "", time |-> 0, time_list |-> <<>>,
     file_list |-> <<>>, unreadable |-> {}, gdal_exceptions |-> FALSE,
     in_raster |-> FALSE, data_ |-> <<>>, output |-> <<>>, error |-> ""]

IdleVigil ==
    [pc |-> "idle", p |-> <<0, 0, 0>>, readable |-> <<TRUE, TRUE, TRUE>>,
     gdal_exceptions |-> FALSE, logged |-> {}, result |-> 0, error |-> ""]

IdleLoader ==
    [pc |-> "idle", option |-> "", files |-> <<>>, i |-> 0,
     index_exists |-> TRUE,
     bulk_data |-> <<>>, accepts |-> <<>>, result |-> <<>>,
     reported |-> <<>>, error |-> ""]

\* "with ... as h:" entered, h being a raster file handle or a MemoryFile
EnterWith(handles, h) == Append(handles, h)

\* the innermost "with" block left at its end
ExitWith(handles) == SubSeq(handles, 1, Len(handles) - 1)

UnwindNothing(handles) == handles

\* A raise or a return inside "with" blocks leaves every enclosing block,
\* and each block closes its handle on the way out.
Unwind(handles) == <<>>

\* raise ProviderQueryError(...) / an exception other than ProviderQueryError
Raise(q, kind) ==
    [q EXCEPT !.pc = "done", !.raised_at = q.pc,
              !.handles = Unwind(q.handles),
              !.result = [NoResult EXCEPT !.kind = kind]]

\* ---------------------------------------------------------------- Init
\* RDPAGDALProvider.__init__ (lines 65-74): the resolver fills self.file_list
\* with every file of the variable; the configured data path is a pattern
\* ('*' in self.data), which is replaced by the last file of the list.
Init ==
    /\ file_list = AllFiles
    /\ data = Last(file_list)
    /\ filename = 0
    /\ req = [r \in ConcReqs |-> IdleReq]
    /\ instance = [state |-> "ready", wildcard |-> TRUE, has_var |-> TRUE,
                   disk |-> AllFiles, raised |-> "", error |-> ""]
    /\ drill = IdleDrill
    /\ vigil = IdleVigil
    /\ loader = IdleLoader

\* provider_def['data'] when it is not a pattern: the path of the first file
FixedPath == AllFiles[1]

\* Before RDPAGDALProvider(provider_def): the data path of the definition
\* is a pattern with '*' or the path of one file, it names the variable
\* ('APCP-{}_Sfc') or not, and the variable has files or none.
InitNew ==
    /\ file_list = <<>>
    /\ data = 0
    /\ filename = 0
    /\ req = [r \in ConcReqs |-> IdleReq]
    /\ \E wildcard \in BOOLEAN, has_var \in BOOLEAN,
          disk \in {AllFiles, <<>>} :
         instance = [state |-> "new", wildcard |-> wildcard,
                     has_var |-> has_var, disk |-> disk,
                     raised |-> "", error |-> ""]
    /\ drill = IdleDrill
    /\ vigil = IdleVigil
    /\ loader = IdleLoader

\* the steps of __init__ that fail for reasons outside the definition
InitFailures ==
    {"none", "rasterio.open", "_get_coverage_properties", "format",
     "get_coverage_domainset"}

ExceptNothing(err) == err

\* lines 90-92: except Exception as err: raise ProviderConnectionError(err)
ExceptException(err) == "ProviderConnectionError"

\* lines 63-89, the exception the body of the try raises, "" for none
InitRaises(inst, fail) ==
    IF ~inst.has_var
    THEN "TypeError"               \* line 68: search(...) is None
    ELSE IF inst.wildcard /\ inst.disk = <<>>
    THEN "IndexError"              \* line 74: self.file_list[-1]
    ELSE IF ~inst.wildcard /\ inst.disk = <<>>
    THEN "RasterioIOError"         \* line 78: no such file
    ELSE CASE fail = "none" -> ""
           [] fail = "rasterio.open" -> "RasterioIOError"
           [] fail = "format" -> "KeyError"
           [] OTHER -> "Exception"

\* RDPAGDALProvider.__init__ (lines 55-92)
Construct ==
    /\ instance.state = "new"
    /\ \E fail \in InitFailures :
         LET raised == InitRaises(instance, fail)
         IN  IF raised = ""
             THEN /\ file_list' = instance.disk
                  /\ data' = IF instance.wildcard THEN Last(instance.disk)
                                                  ELSE FixedPath
                  /\ instance' = [instance EXCEPT !.state = "ready"]
             ELSE /\ instance' = [instance EXCEPT
                                    !.state = "failed",
                                    !.raised = raised,
                                    !.error = ExceptException(raised)]
                  /\ UNCHANGED <<file_list, data>>
    /\ UNCHANGED <<filename, req, others>>

\* ------------------------------------------------------------- query()
\* The call: arguments bound, locals initialised (lines 106-114).
Call(r, Inputs) ==
    /\ instance.state = "ready"
    /\ req[r].pc = "idle"
    /\ \E in \in Inputs :
         req' = [req EXCEPT ![r] =
                   [IdleReq EXCEPT !.pc = "validate",
                                   !.properties = in.properties,
                                   !.subsets = in.subsets,
                                   !.bbox = in.bbox,
                                   !.datetime_ = in.datetime_,
                                   !.format_ = in.format_,
                                   !.data0 = data,
                                   !.file_list0 = file_list]]
    /\ UNCHANGED <<data, file_list, filename, instance, others>>

ConflictingSubsetEmptyBBox(subsets, bbox) ==
    /\ x_axis_label \in DOMAIN subsets
    /\ y_axis_label \in DOMAIN subsets
    /\ Len(bbox) = 0

\* lines 116-118
ConflictingSubset(subsets, bbox) ==
    /\ x_axis_label \in DOMAIN subsets
    /\ y_axis_label \in DOMAIN subsets
    /\ Len(bbox) > 0

\* lines 116-121
Validate(r) ==
    /\ req[r].pc = "validate"
    /\ req' = [req EXCEPT ![r] =
                 IF ConflictingSubset(req[r].subsets, req[r].bbox)
                 THEN Raise(req[r], "query_error")
                 ELSE [req[r] EXCEPT !.pc = "geometry"]]
    /\ UNCHANGED <<data, file_list, filename, instance, others>>

\* rasterio.warp.transform_geom(EPSG:4326 -> native CRS) of one point: the
\* rotated-pole grid turns the axes, so no coordinate is kept.
TransformGeom(p) == <<p[1] - p[2], p[1] + p[2]>>

BBoxShapesTwoCorners(bbox) ==
    LET min_coord == TransformGeom(<<bbox[1], bbox[2]>>)
        max_coord == TransformGeom(<<bbox[3], bbox[4]>>)
    IN  << <<min_coord, <<min_coord[1], max_coord[2]>>, max_coord,
             <<max_coord[1], min_coord[2]>>, min_coord>> >>

\* lines 124-165: the four corners, each reprojected on its own
BBoxShapes(bbox) ==
    LET minx == bbox[1]
        miny == bbox[2]
        maxx == bbox[3]
        maxy == bbox[4]
        min_coord == TransformGeom(<<minx, miny>>)
        max_coord == TransformGeom(<<maxx, maxy>>)
        upleft_coord == TransformGeom(<<minx, maxy>>)
        downright_coord == TransformGeom(<<maxx, miny>>)
    IN  << <<min_coord, upleft_coord, max_coord, downright_coord, min_coord>> >>

SubsetShapesReprojected(subsets) ==
    BBoxShapes(<<subsets[x_axis_label][1], subsets[y_axis_label][1],
                 subsets[x_axis_label][2], subsets[y_axis_label][2]>>)

\* lines 171-183
SubsetShapes(subsets) ==
    LET x == x_axis_label
        y == y_axis_label
    IN  << << <<subsets[x][1], subsets[y][1]>>,
              <<subsets[x][1], subsets[y][2]>>,
              <<subsets[x][2], subsets[y][2]>>,
              <<subsets[x][2], subsets[y][1]>>,
              <<subsets[x][1], subsets[y][1]>> >> >>

\* lines 123-183; transform_geom raises on a point it cannot reproject and
\* query() has no handler around it.
Geometry(r) ==
    /\ req[r].pc = "geometry"
    /\ \E ok \in BOOLEAN :
         LET q == req[r]
         IN  req' = [req EXCEPT ![r] =
                       IF Len(q.bbox) > 0
                       THEN IF ok
                            THEN [q EXCEPT !.pc = "resolve",
                                           !.transforms = 4,
                                           !.shapes = BBoxShapes(q.bbox)]
                            ELSE Raise(q, "exception")
                       ELSE IF /\ x_axis_label \in DOMAIN q.subsets
                               /\ y_axis_label \in DOMAIN q.subsets
                            THEN [q EXCEPT !.pc = "resolve",
                                           !.shapes = SubsetShapes(q.subsets)]
                            ELSE [q EXCEPT !.pc = "resolve"]]
    /\ UNCHANGED <<data, file_list, filename, instance, others>>

\* RDPAProvider.get_file_list(self, variable, datetime_): the files of the
\* variable whose time lies in the range, in ascending time order; the caller
\* reads the answer from self.file_list (lines 71-74 and 202-203).
GetFileList(dt) ==
    IF dt = None THEN AllFiles
    ELSE SelectSeq(AllFiles, LAMBDA f : dt[1] <= f /\ f <= dt[2])

\* line 195: [v for v in self.file_list if period in v]
Matching(list, period) == SelectSeq(list, LAMBDA v : v = period)

\* lines 196-199: no entry of self.file_list carries the period
OutOfDomain == -1

\* lines 185-202
Resolve(r) ==
    /\ req[r].pc = "resolve"
    /\ LET q == req[r]
           dt == q.datetime_
       IN  IF dt = None
           THEN /\ req' = [req EXCEPT ![r].pc = "open"]
                /\ UNCHANGED <<data, file_list>>
           ELSE IF ~IsRange(dt) /\ dt[1] = Malformed
           \* lines 191-192: strptime raises ValueError; the handler of
           \* line 196 names IndexError only
           THEN /\ req' = [req EXCEPT ![r] = Raise(q, "exception")]
                /\ UNCHANGED <<data, file_list>>
           ELSE IF ~IsRange(dt)
           THEN LET found == Matching(file_list, dt[1])
                IN  IF found = <<>>
                    THEN /\ req' = [req EXCEPT ![r] =
                                      [Raise(q, "query_error")
                                         EXCEPT !.resolved = OutOfDomain]]
                         /\ UNCHANGED <<data, file_list>>
                    ELSE /\ data' = found[1]
                         /\ req' = [req EXCEPT ![r].pc = "open",
                                               ![r].resolved = found[1]]
                         /\ UNCHANGED file_list
           ELSE /\ file_list' = GetFileList(dt)
                /\ req' = [req EXCEPT ![r].pc = "assign",
                                      ![r].resolver_calls = @ + 1]
                /\ UNCHANGED data
    /\ UNCHANGED <<filename, instance, others>>

\* line 203: date_file_list = self.file_list
AssignList(r) ==
    /\ req[r].pc = "assign"
    /\ req' = [req EXCEPT ![r].pc = "open",
                          ![r].date_file_list = file_list]
    /\ UNCHANGED <<data, file_list, filename, instance, others>>

\* lines 205-209: args['indexes'], then rasterio.open(self.data), which
\* raises when the file cannot be opened.
Open(r) ==
    /\ req[r].pc = "open"
    /\ \E ok \in BOOLEAN :
         LET q == [req[r] EXCEPT !.indexes = req[r].properties]
         IN  req' = [req EXCEPT ![r] =
                       IF ok
                       THEN [q EXCEPT !.pc = "read",
                                      !.src = data,
                                      !.handles =
                                          EnterWith(q.handles, <<"_data", data>>),
                                      !.opened = Append(q.opened, data)]
                       ELSE Raise(q, "exception")]
    /\ UNCHANGED <<data, file_list, filename, instance, others>>

\* One band of one file, as cut by the clip geometry (<<>>: the full extent).
Plane(file, band, shapes) == <<file, band, shapes>>

\* indexes=None reads every band of the file.
BandIndexes(indexes) == IF indexes = <<>> THEN Range(1, NumBands) ELSE indexes

IndexesInFile(indexes) == \A i \in 1..Len(indexes) : indexes[i] \in 1..NumBands

\* rasterio.mask.mask(..., indexes=) / DatasetReader.read(indexes=)
ReadImage(file, indexes, shapes) ==
    [i \in 1..Len(BandIndexes(indexes)) |->
        Plane(file, BandIndexes(indexes)[i], shapes)]

\* _data.bounds: every file of the variable lies on the same grid
NativeBounds == [left |-> -200, bottom |-> -100, right |-> 200, top |-> 100]

\* _data.meta['transform']: pixel width a, pixel height e (north up), and
\* the origin (c, f), the upper left corner of the raster
NativeTransform ==
    [a |-> 2, e |-> -2, c |-> NativeBounds.left, f |-> NativeBounds.top]

\* line 211: _data.meta, the height, width and transform of the whole file
FileMeta ==
    [width |-> (NativeBounds.right - NativeBounds.left) \div NativeTransform.a,
     height |-> (NativeBounds.bottom - NativeBounds.top) \div NativeTransform.e,
     c |-> NativeTransform.c, f |-> NativeTransform.f]

Least(S) == CHOOSE v \in S : \A w \in S : v <= w

Greatest(S) == CHOOSE v \in S : \A w \in S : v >= w

\* the pixel edge at or below v, and the one at or above it
EdgeBelow(v) == (v \div NativeTransform.a) * NativeTransform.a
EdgeAbove(v) == 0 - EdgeBelow(0 - v)

\* rasterio.mask.mask(crop=True): the raster is cropped to the extent of
\* the shapes, widened to whole pixels and kept inside the raster; the
\* height, width and transform of that window go to out_meta (lines 231-234)
MaskMeta(shapes) ==
    LET xs == {shapes[1][i][1] : i \in 1..Len(shapes[1])}
        ys == {shapes[1][i][2] : i \in 1..Len(shapes[1])}
        x0 == Max(EdgeBelow(Least(xs)), NativeBounds.left)
        x1 == 0 - Max(0 - EdgeAbove(Greatest(xs)), 0 - NativeBounds.right)
        y0 == Max(EdgeBelow(Least(ys)), NativeBounds.bottom)
        y1 == 0 - Max(0 - EdgeAbove(Greatest(ys)), 0 - NativeBounds.top)
    IN  [width |-> (x1 - x0) \div NativeTransform.a,
         height |-> (y0 - y1) \div NativeTransform.e,
         c |-> x0, f |-> y1]

MetaBBoxAxisWise(bbox, shapes, subsets) ==
    IF bbox # <<>>
    THEN <<bbox[1], bbox[2], bbox[3], bbox[4]>>
    ELSE IF shapes # <<>>
    THEN <<subsets[x_axis_label][1], subsets[x_axis_label][2],
           subsets[y_axis_label][1], subsets[y_axis_label][2]>>
    ELSE <<NativeBounds.left, NativeBounds.bottom,
           NativeBounds.right, NativeBounds.top>>

\* lines 239-252: out_meta['bbox']
MetaBBox(bbox, shapes, subsets) ==
    IF bbox # <<>>
    THEN <<bbox[1], bbox[2], bbox[3], bbox[4]>>
    ELSE IF shapes # <<>>
    THEN <<subsets[x_axis_label][1], subsets[y_axis_label][1],
           subsets[x_axis_label][2], subsets[y_axis_label][2]>>
    ELSE <<NativeBounds.left, NativeBounds.bottom,
           NativeBounds.right, NativeBounds.top>>

\* lines 210-259: the clip or the full read of the opened file, the bbox and
\* units metadata, self.filename.  A clip outside the raster is the
\* ValueError the code turns into ProviderQueryError; a band index outside
\* the file is an IndexError nothing catches.
Read(r) ==
    /\ req[r].pc = "read"
    /\ \E overlap \in BOOLEAN :
         LET q == req[r]
         IN  IF q.shapes # <<>> /\ ~overlap
             THEN /\ req' = [req EXCEPT ![r] = Raise(req[r], "query_error")]
                  /\ UNCHANGED filename
             ELSE IF ~IndexesInFile(q.indexes)
             THEN /\ req' = [req EXCEPT ![r] = Raise(req[r], "exception")]
                  /\ UNCHANGED filename
             ELSE /\ req' = [req EXCEPT
                               ![r].pc = "serialize",
                               ![r].out_meta =
                                   IF q.shapes # <<>> THEN MaskMeta(q.shapes)
                                                      ELSE FileMeta,
                               ![r].meta_bbox =
                                   MetaBBox(q.bbox, q.shapes, q.subsets),
                               ![r].out_image =
                                   ReadImage(q.src, q.indexes, q.shapes)]
                  /\ filename' = data
    /\ UNCHANGED <<data, file_list, instance, others>>

\* RasterioProvider.gen_covjson(metadata, data): one range per entry of
\* metadata['bands']; more than one band is not supported in this format.
GenCovjson(bands, out_image) ==
    IF Len(bands) > 1
    THEN [NoResult EXCEPT !.kind = "query_error"]
    ELSE [kind |-> "covjson", bands |-> out_image, count |-> Len(bands)]

\* lines 409-418: MemoryFile().open(self.data) hands the data path to the
\* parameter that names the raster driver; no driver has that name, so the
\* container is never created and dest.write(out_image) is not reached.
NativeSingle(path, out_image) == [NoResult EXCEPT !.kind = "exception"]

\* lines 263-279 and 305-418
Serialize(r) ==
    /\ req[r].pc = "serialize"
    /\ LET q == req[r]
       IN  req' = [req EXCEPT ![r] =
             IF q.format_ = "json"
             THEN IF q.date_file_list # <<>>
                  THEN Raise(q, "query_error")
                  ELSE [q EXCEPT !.pc = "done",
                                 !.handles = Unwind(q.handles),
                                 !.result = GenCovjson(<<1>>, q.out_image)]
             ELSE IF q.date_file_list # <<>>
                  THEN [q EXCEPT !.pc = "stack",
                                 !.count = Len(q.date_file_list),
                                 !.id = 1,
                                 \* line 279: memfile.open(**out_meta)
                                 !.container = q.out_meta,
                                 !.handles =
                                     EnterWith(EnterWith(q.handles,
                                         <<"memfile", 0>>), <<"dest", 0>>),
                                 !.dest = [i \in 1..Len(q.date_file_list)
                                             |-> <<>>]]
                  ELSE IF q.indexes = <<>>
                       \* line 307: len(args['indexes']) of None
                       THEN Raise(q, "exception")
                       ELSE [q EXCEPT !.pc = "done",
                                      !.count = Len(q.indexes),
                                      !.raised_at = "serialize",
                                      !.handles = Unwind(q.handles),
                                      !.result =
                                          NativeSingle(data, q.out_image)]]
    /\ UNCHANGED <<data, file_list, filename, instance, others>>

WriteBandFirstSlot(dest, id, out_image) == [dest EXCEPT ![1] = out_image[1]]

WriteBandLastPlane(dest, id, out_image) ==
    [dest EXCEPT ![id] = out_image[Len(out_image)]]

\* line 299: dest.write_band(id, out_image[0])
WriteBand(dest, id, out_image) == [dest EXCEPT ![id] = out_image[1]]

StackSkipLayer(q, kind) ==
    [q EXCEPT !.series_failed = TRUE, !.id = q.id + 1]

\* lines 293-295 and the exit of "with rasterio.open(layer)" on an error:
\* the exception leaves the loop and both MemoryFile blocks.
StackFailure(q, kind) == [Raise(q, kind) EXCEPT !.series_failed = TRUE]

\* the per-time-step source handles (line 282) that are open
Src1Open(handles) ==
    Cardinality({i \in 1..Len(handles) : handles[i][1] = "src1"})

\* lines 280-299, one pass of the loop over date_file_list.  The container
\* was created with the height and width of the first read (lines 231-234,
\* 279); nothing in query() compares the shape of a layer's plane with them.
\* write_band of a plane of another shape is left to the raster library:
\* it either takes the plane, fitted to the band, or raises an error that
\* no handler of query() catches.
StackStep(r) ==
    /\ req[r].pc = "stack"
    /\ req[r].id <= Len(req[r].date_file_list)
    /\ \E ok \in BOOLEAN, overlap \in BOOLEAN,
          same \in BOOLEAN, taken \in BOOLEAN :
         LET q == req[r]
             layer == q.date_file_list[q.id]
             inside == EnterWith(q.handles, <<"src1", layer>>)
             o == [q EXCEPT !.opened = Append(q.opened, layer),
                            !.handles = inside,
                            !.src1_peak = Max(q.src1_peak, Src1Open(inside))]
             m == [o EXCEPT !.mismatched = q.mismatched \cup {q.id}]
             w == IF same THEN o ELSE m
         IN  req' = [req EXCEPT ![r] =
               IF ~ok THEN StackFailure(q, "exception")
               ELSE IF q.shapes # <<>> /\ ~overlap
               THEN StackFailure(o, "query_error")
               ELSE IF ~same /\ ~taken
               THEN Raise(m, "exception")
               ELSE [w EXCEPT
                       !.handles = ExitWith(inside),
                       !.out_image = ReadImage(layer, q.indexes, q.shapes),
                       !.dest = WriteBand(q.dest, q.id,
                                   ReadImage(layer, q.indexes, q.shapes)),
                       !.id = q.id + 1]]
    /\ UNCHANGED <<data, file_list, filename, instance, others>>

\* lines 301-304: return memfile.read()
StackReturn(r) ==
    /\ req[r].pc = "stack"
    /\ req[r].id > Len(req[r].date_file_list)
    /\ req' = [req EXCEPT ![r].pc = "done",
                          ![r].handles = Unwind(req[r].handles),
                          ![r].result = [kind |-> "bytes",
                                         bands |-> req[r].dest,
                                         count |-> req[r].count]]
    /\ UNCHANGED <<data, file_list, filename, instance, others>>

\* The caller has the result (or the exception); the call's frame is gone.
Return(r) ==
    /\ req[r].pc = "done"
    /\ req' = [req EXCEPT ![r] = IdleReq]
    /\ UNCHANGED <<data, file_list, filename, instance, others>>

Query(r, Inputs) ==
    \/ Call(r, Inputs)
    \/ Validate(r)
    \/ Geometry(r)
    \/ Resolve(r)
    \/ AssignList(r)
    \/ Open(r)
    \/ Read(r)
    \/ Serialize(r)
    \/ StackStep(r)
    \/ StackReturn(r)
    \/ Return(r)

\* One call at a time on the provider instance.
Next == \E r \in SeqReqs : Query(r, QueryInputs)

Spec == Init /\ [][Next]_vars

\* Two calls interleaved on the same provider instance.
NextConc == \E r \in ConcReqs : Query(r, ConcInputs)

SpecConc == Init /\ [][NextConc]_vars

\* The provider is constructed, then serves one call at a time.
NextInit == Construct \/ \E r \in SeqReqs : Query(r, ConcInputs)

SpecInit == InitNew /\ [][NextInit]_vars

\* -------------------------------------------------------------------
\* raster_drill_weather (msc_pygeoapi/process/weather/
\* raster_drill_weather.py).  Times are whole hours.
\* -------------------------------------------------------------------
Hours == 0..MaxHour

\* layer_conf['forecast_model']['forecast_hour_interval']
Intervals == {-1, 0, 1, 2}

ModelRuns == {0, 1}

DrillFormats == {"GeoJSON", "CSV"}

\* datetime.min: "time += time_step" below it raises OverflowError
DatetimeMin == 0 - 2

\* The number of entries a list can hold before list.append raises
\* MemoryError; more than any time list between two hours of Hours needs.
MaxList == MaxHour - DatetimeMin + 2

DrillRaise(d, err) == [d EXCEPT !.pc = "done", !.error = err]

\* raster_drill_weather(layer, x, y, format_, time_begin, time_end,
\* model_run) up to the call of get_list_file (lines 332-348)
DrillCall ==
    /\ drill.pc = "idle"
    /\ \E fh_int \in Intervals, time_begin \in Hours, time_end \in Hours,
          model_run \in ModelRuns, format_ \in DrillFormats :
         drill' = [IdleDrill EXCEPT !.pc = "get_time_list",
                                    !.fh_int = fh_int,
                                    !.time_begin = time_begin,
                                    !.time_end = time_end,
                                    !.model_run = model_run,
                                    !.format_ = format_]
    /\ UNCHANGED <<provider, vigil, loader>>

\* get_time_list, lines 169-176 and 180-182
TimeListBegin ==
    /\ drill.pc = "get_time_list"
    /\ drill' = IF drill.time_begin < drill.time_end
                    /\ drill.time_begin # drill.time_end
                 THEN [drill EXCEPT !.pc = "while",
                                    !.time_list = <<drill.time_begin>>,
                                    !.time = drill.time_begin]
                 ELSE [drill EXCEPT !.pc = "get_list_file"]
    /\ UNCHANGED <<provider, vigil, loader>>

\* get_time_list, lines 177-179: one pass of "while time < time_end"
TimeListStep ==
    /\ drill.pc = "while"
    /\ drill.time < drill.time_end
    /\ drill' = IF drill.time + drill.fh_int < DatetimeMin
                 THEN DrillRaise(drill, "OverflowError")
                 ELSE IF Len(drill.time_list) >= MaxList
                 THEN DrillRaise(drill, "MemoryError")
                 ELSE [drill EXCEPT
                         !.time = drill.time + drill.fh_int,
                         !.time_list = Append(drill.time_list,
                                              drill.time + drill.fh_int)]
    /\ UNCHANGED <<provider, vigil, loader>>

\* get_time_list, line 177 false and line 182
TimeListReturn ==
    /\ drill.pc = "while"
    /\ ~(drill.time < drill.time_end)
    /\ drill' = [drill EXCEPT !.pc = "get_list_file"]
    /\ UNCHANGED <<provider, vigil, loader>>

\* int(v) of a quotient: towards zero
TruncDiv(a, b) == IF a >= 0 THEN a \div b ELSE 0 - ((0 - a) \div b)

\* lines 202-203: time_ - model_run is a timedelta, kept as days (negative
\* when time_ is before model_run) and seconds within the day
ForecastHour(time_, model_run) ==
    LET hours == time_ - model_run
        days == hours \div 24
        seconds == (hours - days * 24) * 3600
    IN  TruncDiv(days * 24 * 3600 + seconds, 3600)

\* lines 189-194 and 205-215: the file name carries the day and the hour of
\* the model run and the forecast hour
Filename(time_, model_run) ==
    [YYYYMMDD |-> model_run \div 24, model_run |-> model_run % 24,
     forecast_hour |-> ForecastHour(time_, model_run)]

FileListFromSecond(time_list, model_run) ==
    [i \in 1..Len(time_list) |->
        Filename(time_list[IF i < Len(time_list) THEN i + 1 ELSE i],
                 model_run)]

\* lines 198-217: for time_ in time_list: ... file_list.append(filename)
FileList(time_list, model_run) ==
    [i \in 1..Len(time_list) |-> Filename(time_list[i], model_run)]

\* get_list_file, lines 184-219, after get_time_list has returned
GetListFile ==
    /\ drill.pc = "get_list_file"
    /\ drill' = [drill EXCEPT
                   !.pc = "coords",
                   !.file_list = FileList(drill.time_list, drill.model_run)]
    /\ UNCHANGED <<provider, vigil, loader>>
\* the array read from band 1 of a file, and its value at pixel (x_, y_)
Unbound == <<>>
ArrayOf(file_) == <<file_>>
NA == <<"NA">>
ValueAt(array) == <<"value", array[1]>>

\* raster_drill_weather, lines 355-363: the first file is opened for the
\* pixel coordinates.  Which files cannot be opened, whether gdal raises
\* for them (gdal.UseExceptions) or returns None, and whether the pixel lies
\* in the raster are given by the environment.
Coords ==
    /\ drill.pc = "coords"
    /\ \E unreadable \in SUBSET (1..Len(drill.file_list)),
          gdal_exceptions \in BOOLEAN, in_raster \in BOOLEAN :
         LET d == [drill EXCEPT !.unreadable = unreadable,
                                !.gdal_exceptions = gdal_exceptions,
                                !.in_raster = in_raster]
         IN  drill' =
               IF d.file_list = <<>>
               THEN DrillRaise(d, "IndexError")          \* list_file[0]
               ELSE IF 1 \in unreadable
               THEN IF gdal_exceptions
                    \* RuntimeError is caught, x_ and y_ stay unbound
                    THEN DrillRaise(d, "UnboundLocalError")
                    \* geo2xy(None, x, y)
                    ELSE DrillRaise(d, "AttributeError")
               ELSE [d EXCEPT !.pc = "get_data"]
    /\ UNCHANGED <<provider, vigil, loader>>

\* get_data, lines 260-273, from file i of list_file on: the state of the
\* loop is the local 'array' and the list data_; the result is data_, or
\* the exception that leaves the function.
RECURSIVE GetDataLoop(_, _, _, _, _, _, _)
GetDataLoop(list_file, i, array, data_, unreadable, raises, in_raster) ==
    IF i > Len(list_file) THEN [data_ |-> data_, error |-> ""]
    ELSE IF i \in unreadable /\ ~raises
    THEN [data_ |-> data_, error |-> "AttributeError"]  \* None.GetRasterBand
    ELSE LET opened == i \notin unreadable
             array1 == IF opened THEN ArrayOf(list_file[i]) ELSE array
             data1 == IF opened THEN data_ ELSE Append(data_, NA)
         IN  IF array1 = Unbound
             THEN [data_ |-> data1, error |-> "UnboundLocalError"]
             ELSE GetDataLoop(list_file, i + 1, array1,
                              IF in_raster
                              THEN Append(data1, ValueAt(array1))
                              ELSE data1,     \* IndexError, logged
                              unreadable, raises, in_raster)

\* get_data(list_file, x_, y_), lines 255-275
GetData ==
    /\ drill.pc = "get_data"
    /\ LET got == GetDataLoop(drill.file_list, 1, Unbound, <<>>,
                              drill.unreadable, drill.gdal_exceptions,
                              drill.in_raster)
       IN  drill' = IF got.error # ""
                    THEN DrillRaise([drill EXCEPT !.data_ = got.data_],
                                    got.error)
                    ELSE [drill EXCEPT !.pc = "serialize",
                                       !.data_ = got.data_]
    /\ UNCHANGED <<provider, vigil, loader>>

\* serialize, lines 282-328: one feature or one row per index of data_,
\* with list_time[i] and data_[i]
Features(data_, list_time) ==
    [i \in 1..Len(data_) |-> [time |-> list_time[i], value |-> data_[i]]]

\* serialize(data_, x, y, list_time, layer_conf, format_), lines 278-330,
\* and the return of raster_drill_weather
SerializeDrill ==
    /\ drill.pc = "serialize"
    /\ drill' = IF Len(drill.data_) > Len(drill.time_list)
                 THEN DrillRaise(drill, "IndexError")     \* list_time[i]
                 ELSE [drill EXCEPT
                         !.pc = "done",
                         !.output = Features(drill.data_, drill.time_list)]
    /\ UNCHANGED <<provider, vigil, loader>>

\* The caller has the output or the exception.
DrillReturn ==
    /\ drill.pc = "done"
    /\ drill' = IdleDrill
    /\ UNCHANGED <<provider, vigil, loader>>

NextDrill ==
    \/ DrillCall
    \/ TimeListBegin
    \/ TimeListStep
    \/ TimeListReturn
    \/ GetListFile
    \/ Coords
    \/ GetData
    \/ SerializeDrill
    \/ DrillReturn

SpecDrill == Init /\ [][NextDrill]_vars

\* The process runs on: a step that can be taken is taken.
SpecDrillFair == SpecDrill /\ WF_vars(NextDrill)

\* -------------------------------------------------------------------
\* generate_vigilance (msc_pygeoapi/process/weather/generate_vigilance.py):
\* get_new_array on one pixel of the three threshold layers.
\* -------------------------------------------------------------------
\* a probability in percent, as the threshold layers hold it
Probs == 0..100

\* pixels read when a layer cannot be opened
SampleProbs == {<<0, 0, 0>>, <<39, 19, 0>>, <<45, 25, 65>>, <<100, 100, 100>>}

Readables == BOOLEAN \X BOOLEAN \X BOOLEAN

Recode2HighFirst(v) ==
    LET a == IF v >= 60 THEN 7 ELSE v
        b == IF a >= 40 /\ a < 60 THEN 6 ELSE a
        c == IF b >= 20 /\ b < 40 THEN 4 ELSE b
        d == IF c >= 1 /\ c < 20 THEN 3 ELSE c
    IN  d

\* lines 209-211: three assignments in place, each on the result of the
\* one before
Recode1(v) ==
    LET a == IF v < 40 THEN 0 ELSE v
        b == IF a >= 40 /\ a < 60 THEN 1 ELSE a
        c == IF b >= 60 THEN 2 ELSE b
    IN  c

\* lines 221-224
Recode2(v) ==
    LET a == IF v >= 1 /\ v < 20 THEN 3 ELSE v
        b == IF a >= 20 /\ a < 40 THEN 4 ELSE a
        c == IF b >= 40 /\ b < 60 THEN 6 ELSE b
        d == IF c >= 60 THEN 7 ELSE c
    IN  d

\* lines 234-237
Recode3(v) ==
    LET a == IF v >= 1 /\ v < 20 THEN 5 ELSE v
        b == IF a >= 20 /\ a < 40 THEN 8 ELSE a
        c == IF b >= 40 /\ b < 60 THEN 9 ELSE b
        d == IF c >= 60 THEN 10 ELSE c
    IN  d

\* np.maximum of two values
Maximum(a, b) == IF a >= b THEN a ELSE b

\* get_new_array(layers, lyr_dict) is called (line 303); the environment
\* gives the pixel of each layer, which layer files can be opened, and
\* whether gdal raises for one that cannot or returns None.
VigilCall ==
    /\ vigil.pc = "idle"
    /\ \/ \E p1 \in Probs, p2 \in Probs, p3 \in Probs :
            vigil' = [IdleVigil EXCEPT !.pc = "get_new_array",
                                       !.p = <<p1, p2, p3>>]
       \/ \E p \in SampleProbs, readable \in Readables,
             gdal_exceptions \in BOOLEAN :
            vigil' = [IdleVigil EXCEPT !.pc = "get_new_array",
                                       !.p = p,
                                       !.readable = readable,
                                       !.gdal_exceptions = gdal_exceptions]
    /\ UNCHANGED <<provider, drill, loader>>

\* the layers, in order, that cannot be opened
Unreadable(readable) == {k \in 1..3 : ~readable[k]}

\* get_new_array, lines 202-245
GetNewArray ==
    /\ vigil.pc = "get_new_array"
    /\ LET v == vigil
           bad == Unreadable(v.readable)
       IN  vigil' =
             IF bad # {} /\ ~v.gdal_exceptions
             \* gdal.Open returned None: None.GetRasterBand
             THEN [v EXCEPT !.pc = "done", !.error = "AttributeError"]
             ELSE IF bad # {}
             \* RuntimeError is caught and logged, the layer's array is
             \* never assigned, np.maximum (lines 242-243) reads it
             THEN [v EXCEPT !.pc = "done", !.logged = bad,
                            !.error = "UnboundLocalError"]
             ELSE [v EXCEPT !.pc = "done",
                            !.result =
                                Maximum(Maximum(Recode1(v.p[1]),
                                                Recode2(v.p[2])),
                                        Recode3(v.p[3]))]
    /\ UNCHANGED <<provider, drill, loader>>

\* The caller has the array or the exception.
VigilReturn ==
    /\ vigil.pc = "done"
    /\ vigil' = IdleVigil
    /\ UNCHANGED <<provider, drill, loader>>

NextVigil == VigilCall \/ GetNewArray \/ VigilReturn

SpecVigil == Init /\ [][NextVigil]_vars

\* -------------------------------------------------------------------
\* raqdps_fw_ce_hotspots (msc_pygeoapi/loader/raqdps_fw_ce_hotspots.py):
\* the 'add' command and RAQDPSFWCEHotspotsRealtimeLoader.load_data.
\* -------------------------------------------------------------------
\* number of features in a hotspots file
FeatureCounts == 0..MaxFeatures

\* the .json files of a directory, each given by its number of features
FileLists ==
    UNION {[1..n -> FeatureCounts] : n \in 0..MaxFilesToProcess}

\* Python truth value of what load_data returned
Truthy(result) == result = <<TRUE>>

\* CEhotspots2geojson(filepath), lines 133-152: json.loads is called (line
\* 143) in a module that does not import json (lines 30-42), so the call
\* raises NameError for every file, before any feature is looked at.
CEhotspots2geojson(features) == [error |-> "NameError", data |-> <<>>]

\* load_data(filepath), lines 99-130: the exception of CEhotspots2geojson
\* (line 108, outside the try) leaves the function; otherwise two entries
\* per feature go to bulk_data, and the function returns False from the
\* handler or, the try block having no return statement, None.
LoadData(parsed, accepts) ==
    IF parsed.error # ""
    THEN [error |-> parsed.error, bulk_data |-> <<>>, result |-> <<>>]
    ELSE [error |-> "",
          bulk_data |-> [k \in 1..(2 * Len(parsed.data)) |->
                            parsed.data[(k + 1) \div 2]],
          result |-> IF accepts THEN None ELSE <<FALSE>>]

\* add, lines 171-184: the list of files to process, from --file or from
\* --directory; with neither the command is refused
AddCall ==
    /\ loader.pc = "idle"
    /\ \/ loader' = [IdleLoader EXCEPT !.pc = "done",
                                       !.error = "ClickException"]
       \/ \E a \in FeatureCounts :
            loader' = [IdleLoader EXCEPT !.pc = "for", !.option = "file",
                                         !.files = <<a>>, !.i = 1]
       \/ \E files \in FileLists :
            loader' = [IdleLoader EXCEPT !.pc = "for",
                                         !.option = "directory",
                                         !.files = files, !.i = 1]
    /\ UNCHANGED <<provider, drill, vigil>>

\* add, lines 186-195, one pass of the loop: a loader is built (__init__,
\* lines 88-97, creates the index when Elasticsearch does not have it),
\* load_data runs, and "if result:" echoes the generated features.  Whether
\* Elasticsearch has the index and accepts a bulk request is given by the
\* environment.
ProcessFile ==
    /\ loader.pc = "for"
    /\ loader.i <= Len(loader.files)
    /\ \E exists \in BOOLEAN, accepts \in BOOLEAN :
         LET l == [loader EXCEPT !.index_exists = exists,
                                 !.accepts = Append(loader.accepts, accepts)]
             got == LoadData(CEhotspots2geojson(l.files[l.i]), accepts)
         IN  loader' =
               IF got.error # ""
               THEN [l EXCEPT !.pc = "done", !.error = got.error,
                              !.bulk_data = got.bulk_data,
                              !.result = got.result]
               ELSE [l EXCEPT !.i = l.i + 1,
                              !.bulk_data = got.bulk_data,
                              !.result = got.result,
                              !.reported = Append(l.reported,
                                                  Truthy(got.result))]
    /\ UNCHANGED <<provider, drill, vigil>>

\* add, line 186: no file is left
AddDone ==
    /\ loader.pc = "for"
    /\ loader.i > Len(loader.files)
    /\ loader' = [loader EXCEPT !.pc = "done"]
    /\ UNCHANGED <<provider, drill, vigil>>

\* The command has ended.
AddReturn ==
    /\ loader.pc = "done"
    /\ loader' = IdleLoader
    /\ UNCHANGED <<provider, drill, vigil>>

NextLoader ==
    \/ AddCall
    \/ ProcessFile
    \/ AddDone
    \/ AddReturn

SpecLoader == Init /\ [][NextLoader]_vars

\* ------------------------------------------------------------- claims
Errors == {"query_error", "exception"}

Conflicting(q) ==
    /\ q.bbox # <<>>
    /\ {x_axis_label, y_axis_label} \subseteq DOMAIN q.subsets

\* C1: a call with a non-empty bbox and both axis labels in subsets ends with
\* ProviderQueryError, and up to that moment the call has not asked the file
\* resolver for anything and has opened no raster file.
C1_ConflictRejectedBeforeIO ==
    \A r \in ConcReqs :
        (req[r].pc # "idle" /\ Conflicting(req[r])) =>
            /\ req[r].pc \in {"validate", "done"}
            /\ req[r].pc = "done" => req[r].result.kind = "query_error"
            /\ req[r].resolver_calls = 0
            /\ req[r].opened = <<>>

C1_Witness ==
    \E r \in ConcReqs :
        /\ Conflicting(req[r])
        /\ req[r].pc = "done"
        /\ req[r].result.kind = "query_error"

\* C2: a call with format_ = 'json' and a datetime_ range is rejected (it
\* ends with an error, never with data), and it opens no raster file before
\* the rejection.
C2_JsonRangeRejectedBeforeIO ==
    \A r \in ConcReqs :
        (req[r].pc # "idle" /\ req[r].format_ = "json"
                            /\ IsRange(req[r].datetime_)) =>
            /\ req[r].opened = <<>>
            /\ req[r].pc = "done" => req[r].result.kind \in Errors

\* C3: a call with format_ = 'json' and more than one requested band never
\* returns data: it fails, whatever calls were served before it.
C3_JsonMultiBandFails ==
    \A r \in ConcReqs :
        (req[r].pc = "done" /\ req[r].format_ = "json"
                            /\ Len(req[r].properties) > 1) =>
            req[r].result.kind \in Errors

\* C4: whatever calls were served before, a call without datetime_ opens the
\* most recent file of the variable, the last entry of the full file list.
C4_NoDatetimeOpensMostRecent ==
    \A r \in ConcReqs :
        (req[r].datetime_ = None /\ req[r].opened # <<>>) =>
            req[r].opened[1] = Last(AllFiles)

\* C5: a single-timestamp call for time T resolves to the file of time T when
\* the disk holds one and to the out-of-domain error when it holds none,
\* whatever calls were served before on the same provider.
C5_ResolutionIndependentOfHistory ==
    \A r \in ConcReqs :
        (Len(req[r].datetime_) = 1 /\ req[r].resolved # 0) =>
            req[r].resolved = (IF req[r].datetime_[1] \in Files
                               THEN req[r].datetime_[1] ELSE OutOfDomain)

\* C6: of two interleaved single-timestamp calls on one provider, each opens
\* the file of its own time stamp.
C6_InterleavedCallsOpenOwnFile ==
    \A r \in ConcReqs :
        (Len(req[r].datetime_) = 1 /\ req[r].src # 0) =>
            req[r].src = req[r].datetime_[1]

\* C7: a call that ends with an error leaves self.data and self.file_list as
\* they were when the call began.
C7_FailedCallLeavesProviderState ==
    \A r \in ConcReqs :
        (req[r].pc = "done" /\ req[r].result.kind \in Errors) =>
            /\ data = req[r].data0
            /\ file_list = req[r].file_list0

RangeNative(q) ==
    /\ IsRange(q.datetime_)
    /\ q.format_ = "native"
    /\ q.date_file_list # <<>>

C9_StackWritesBandOne ==
    \A r \in ConcReqs :
        (req[r].pc = "done" /\ RangeNative(req[r])
                            /\ req[r].result.kind = "bytes") =>
            \A i \in 1..Len(req[r].result.bands) :
                req[r].result.bands[i][2] = 1

\* C9 amended: in a date-range native-format call every plane written is the
\* first band of the requested band list (properties[0]) of its file, which
\* is band 1 when the list is empty.
C9_StackWritesFirstRequestedBand ==
    \A r \in ConcReqs :
        (req[r].pc = "done" /\ RangeNative(req[r])
                            /\ req[r].result.kind = "bytes") =>
            \A i \in 1..Len(req[r].result.bands) :
                req[r].result.bands[i][2] =
                    (IF req[r].properties = <<>> THEN 1
                     ELSE req[r].properties[1])

C9_Witness ==
    \E r \in ConcReqs :
        /\ req[r].pc = "done"
        /\ RangeNative(req[r])
        /\ req[r].result.kind = "bytes"
        /\ req[r].properties = <<2>>
        /\ req[r].result.bands[1][2] = 2

\* C10: in a date-range call, once a file of the resolved series could not
\* be opened or clipped the call is over and returns no byte buffer.
C10_SeriesFailureIsFatal ==
    \A r \in ConcReqs :
        (IsRange(req[r].datetime_) /\ req[r].series_failed) =>
            /\ req[r].pc = "done"
            /\ req[r].result.kind \in Errors

C10_Witness ==
    \E r \in ConcReqs :
        /\ IsRange(req[r].datetime_)
        /\ req[r].series_failed
        /\ req[r].pc = "done"
        /\ req[r].id >= 2
        /\ req[r].dest[1] # <<>>

\* C11: in a date-range call, once a file of the series gave a plane whose
\* shape differs from the shape the output raster was created with, the call
\* is over with a query error and that plane is not in the output.
C11_ShapeMismatchIsQueryError ==
    \A r \in ConcReqs :
        (req[r].mismatched # {}) =>
            /\ req[r].pc = "done"
            /\ req[r].result.kind = "query_error"
            /\ \A i \in req[r].mismatched : req[r].dest[i] = <<>>

\* The call has run its file resolution (lines 185-203), or failed in it.
Resolved(q) ==
    /\ q.pc \notin {"idle", "validate", "geometry", "resolve"}
    /\ q.raised_at \notin {"validate", "geometry"}

NoEntry(q) ==
    /\ Len(q.datetime_) = 1
    /\ \A i \in 1..Len(q.file_list0) : q.file_list0[i] # q.datetime_[1]

\* C12: a call whose single time stamp matches no entry of the file list ends
\* in the file resolution with ProviderQueryError and has opened no raster
\* file.
C12_NoMatchIsQueryError ==
    \A r \in ConcReqs :
        (NoEntry(req[r]) /\ Resolved(req[r])) =>
            /\ req[r].pc = "done"
            /\ req[r].result.kind = "query_error"
            /\ req[r].opened = <<>>

\* The resolver answered a date range with the empty list (line 203 done).
EmptyRange(q) ==
    /\ IsRange(q.datetime_)
    /\ q.resolver_calls > 0
    /\ q.pc # "assign"
    /\ q.date_file_list = <<>>

\* C13: a date-range call for which the resolver returned no file ends with
\* an empty response: it opens no file, all files being outside the range,
\* and it returns no pixel data.
C13_EmptyRangeIsEmptyResponse ==
    \A r \in ConcReqs :
        EmptyRange(req[r]) =>
            /\ req[r].opened = <<>>
            /\ req[r].result.bands = <<>>

\* C14: with an empty band list every band of the file is read, and a
\* native-format call for one time step then returns a raster with as many
\* bands as the file has.
C14_EmptyBandListGivesAllBands ==
    \A r \in ConcReqs :
        (req[r].properties = <<>> /\ req[r].out_image # <<>>) =>
            /\ Len(req[r].out_image) = NumBands
            /\ (req[r].pc = "done" /\ req[r].format_ = "native"
                                   /\ ~IsRange(req[r].datetime_)) =>
                  /\ req[r].result.kind = "bytes"
                  /\ req[r].result.count = NumBands

BandOutOfRange(q) ==
    \E i \in 1..Len(q.properties) : q.properties[i] \notin 1..NumBands

\* C15: a call whose band list holds an index outside the bands of the file
\* ends, once the file is read, with ProviderQueryError, with and without a
\* spatial clip; it returns no data.
C15_BandOutOfRangeIsQueryError ==
    \A r \in ConcReqs :
        (BandOutOfRange(req[r]) /\ req[r].opened # <<>>
                                /\ req[r].pc # "read") =>
            /\ req[r].pc = "done"
            /\ req[r].result.kind = "query_error"

\* C16: a call in which the reprojection of a bbox corner fails ends with
\* ProviderQueryError, before any file is resolved or opened.
C16_ReprojectionFailureIsQueryError ==
    \A r \in ConcReqs :
        (req[r].raised_at = "geometry") =>
            /\ req[r].result.kind = "query_error"
            /\ req[r].resolver_calls = 0
            /\ req[r].opened = <<>>

\* C17: when a call of query() is over, by a return or by any error, no
\* raster file handle and no MemoryFile opened by it is still open; in the
\* loop over a date range at most one per-time-step source handle is open at
\* a time and none stays open between two passes.
C17_HandlesClosedOnEveryExit ==
    \A r \in ConcReqs :
        /\ req[r].pc = "done" => req[r].handles = <<>>
        /\ req[r].src1_peak <= 1
        /\ req[r].pc = "stack" => Src1Open(req[r].handles) = 0

C17_Witness ==
    \E r \in ConcReqs :
        /\ req[r].pc = "done"
        /\ req[r].raised_at = "stack"
        /\ req[r].result.kind = "query_error"
        /\ req[r].id >= 2
        /\ Len(req[r].opened) >= 3
        /\ req[r].handles = <<>>

\* The call has built its clip geometry (lines 123-183).
PastGeometry(q) ==
    /\ q.pc \notin {"idle", "validate", "geometry"}
    /\ q.raised_at \notin {"validate", "geometry"}

\* C18: for a bbox (minx, miny, maxx, maxy) the clip polygon has exactly 5
\* vertices: the reprojected (minx, miny), (minx, maxy), (maxx, maxy) and
\* (maxx, miny), each reprojected on its own, then the first vertex again.
C18_BBoxPolygonOfFourCorners ==
    \A r \in ConcReqs :
        (req[r].bbox # <<>> /\ PastGeometry(req[r])) =>
            LET b == req[r].bbox
            IN  /\ Len(req[r].shapes) = 1
                /\ Len(req[r].shapes[1]) = 5
                /\ req[r].shapes[1][1] = TransformGeom(<<b[1], b[2]>>)
                /\ req[r].shapes[1][2] = TransformGeom(<<b[1], b[4]>>)
                /\ req[r].shapes[1][3] = TransformGeom(<<b[3], b[4]>>)
                /\ req[r].shapes[1][4] = TransformGeom(<<b[3], b[2]>>)
                /\ req[r].shapes[1][5] = req[r].shapes[1][1]

C18_Witness ==
    \E r \in ConcReqs :
        /\ req[r].bbox = TheBBox
        /\ req[r].pc = "serialize"
        /\ req[r].shapes # <<>>
        /\ req[r].out_image # <<>>

\* C19: with an empty bbox and ranges for both spatial axes in subsets the
\* clip polygon is the closed rectangle (x0,y0), (x0,y1), (x1,y1), (x1,y0),
\* (x0,y0) of the subset values as given, and nothing is reprojected; with
\* one of the two axes only, no clip geometry is built.
C19_SubsetRectangleUnchanged ==
    \A r \in ConcReqs :
        (req[r].bbox = <<>> /\ PastGeometry(req[r])) =>
            LET sub == req[r].subsets
                axes == DOMAIN sub \cap {x_axis_label, y_axis_label}
            IN  /\ axes = {x_axis_label, y_axis_label} =>
                      LET x0 == sub[x_axis_label][1]
                          x1 == sub[x_axis_label][2]
                          y0 == sub[y_axis_label][1]
                          y1 == sub[y_axis_label][2]
                      IN  /\ req[r].shapes =
                                << << <<x0, y0>>, <<x0, y1>>, <<x1, y1>>,
                                      <<x1, y0>>, <<x0, y0>> >> >>
                          /\ req[r].transforms = 0
                /\ Cardinality(axes) = 1 => req[r].shapes = <<>>

C19_Witness ==
    \E r \in ConcReqs :
        /\ req[r].bbox = <<>>
        /\ DOMAIN req[r].subsets = {x_axis_label, y_axis_label}
        /\ req[r].pc = "serialize"
        /\ req[r].shapes # <<>>
        /\ req[r].out_image # <<>>

\* C20: the 'bbox' entry of the metadata (out_meta) that a call which
\* returns a result has built is the caller's bbox when one was
\* given, the subset ranges [x0, y0, x1, y1] when ranges for both axes were
\* given instead, and the native bounds [left, bottom, right, top] of the
\* opened file when no spatial subset was given.
C20_ResultBBoxMetadata ==
    \A r \in ConcReqs :
        (req[r].pc = "done" /\ req[r].result.kind \notin Errors) =>
            LET q == req[r]
                sub == q.subsets
            IN  /\ q.bbox # <<>> => q.meta_bbox = q.bbox
                /\ (q.bbox = <<>> /\ DOMAIN sub =
                                       {x_axis_label, y_axis_label}) =>
                      q.meta_bbox = <<sub[x_axis_label][1],
                                      sub[y_axis_label][1],
                                      sub[x_axis_label][2],
                                      sub[y_axis_label][2]>>
                /\ (q.bbox = <<>> /\ DOMAIN sub = {}) =>
                      q.meta_bbox = <<NativeBounds.left, NativeBounds.bottom,
                                      NativeBounds.right, NativeBounds.top>>

C20_Witness ==
    \E r \in ConcReqs :
        /\ req[r].pc = "done"
        /\ req[r].result.kind = "bytes"
        /\ req[r].bbox = <<>>
        /\ DOMAIN req[r].subsets = {x_axis_label, y_axis_label}
        /\ req[r].meta_bbox = <<1, 2, 5, 7>>

\* A call for one time step (or none) in the native format with a clip,
\* whose clip and band selection were read (lines 218-234).
SingleNativeClip(q) ==
    /\ q.format_ = "native"
    /\ ~IsRange(q.datetime_)
    /\ q.shapes # <<>>
    /\ q.properties # <<>>
    /\ q.out_image # <<>>

\* C21: a single-time-step native-format call with a clip returns a raster
\* whose container was created with the width, height and transform that
\* out_meta holds after the clip, not with those of the whole file.
C21_SingleNativeContainerIsClipWindow ==
    \A r \in ConcReqs :
        (req[r].pc = "done" /\ SingleNativeClip(req[r])) =>
            /\ req[r].result.kind = "bytes"
            /\ req[r].container = MaskMeta(req[r].shapes)

\* the bounding box that a transform and a size in pixels describe
TransformBBox(m) ==
    <<m.c, m.f + NativeTransform.e * m.height,
      m.c + NativeTransform.a * m.width, m.f>>

Abs(v) == IF v >= 0 THEN v ELSE 0 - v

WithinOnePixel(b1, b2) ==
    /\ Len(b1) = Len(b2)
    /\ \A i \in 1..Len(b1) : Abs(b1[i] - b2[i]) <= NativeTransform.a

\* C22: for every call with a clip, the origin of the transform in out_meta
\* plus (pixel width * width, pixel height * height) gives the bounding box
\* that out_meta carries, to within one pixel.
C22_TransformReproducesBBox ==
    \A r \in ConcReqs :
        (req[r].pc = "serialize" /\ req[r].shapes # <<>>) =>
            WithinOnePixel(TransformBBox(req[r].out_meta), req[r].meta_bbox)

\* C23: whatever fails in __init__ (the data path does not name the variable,
\* the variable has no file, the file cannot be opened, the coverage
\* properties cannot be built), the constructor raises
\* ProviderConnectionError, and no call of query() runs on that provider.
C23_InitFailureIsConnectionError ==
    /\ instance.state = "failed" =>
          /\ instance.error = "ProviderConnectionError"
          /\ \A r \in ConcReqs : req[r] = IdleReq
    /\ instance.state = "ready" =>
          /\ instance.has_var
          /\ instance.wildcard => instance.disk # <<>>
    /\ (\E r \in ConcReqs : req[r] # IdleReq) => instance.state = "ready"

C23_Witness ==
    /\ instance.state = "failed"
    /\ instance.raised = "IndexError"
    /\ instance.wildcard
    /\ instance.disk = <<>>

\* get_list_file has returned its two lists.
ListsReturned ==
    drill.pc \in {"coords", "get_data", "serialize"}
        \/ (drill.pc = "done" /\ drill.error \notin {"OverflowError",
                                                     "MemoryError"})

\* C24: get_list_file returns a file list and a time list of equal length,
\* entry i of the file list is the path built for entry i of the time list,
\* and the time list is strictly increasing.
C24_FileListFollowsTimeList ==
    ListsReturned =>
        /\ Len(drill.file_list) = Len(drill.time_list)
        /\ \A i \in 1..Len(drill.time_list) :
              drill.file_list[i] =
                  [YYYYMMDD |-> drill.model_run \div 24,
                   model_run |-> drill.model_run % 24,
                   forecast_hour |-> drill.time_list[i] - drill.model_run]
        /\ \A i \in 1..(Len(drill.time_list) - 1) :
              drill.time_list[i] < drill.time_list[i + 1]

C24_Witness ==
    /\ drill.pc = "coords"
    /\ Len(drill.file_list) >= 3
    /\ drill.model_run > drill.time_begin

\* C26: get_data returns one entry per file of list_file, in order: 'NA' for
\* a file that cannot be opened, the value at the pixel of that file's band 1
\* otherwise; serialize then pairs value i with time i and gives exactly
\* len(list_time) features or rows.
C26_OneValuePerFile ==
    /\ (drill.pc = "serialize" /\ drill.in_raster) =>
          /\ Len(drill.data_) = Len(drill.file_list)
          /\ \A i \in 1..Len(drill.data_) :
                drill.data_[i] = IF i \in drill.unreadable
                                 THEN NA
                                 ELSE ValueAt(ArrayOf(drill.file_list[i]))
    /\ (drill.pc = "done" /\ drill.error = "" /\ drill.in_raster) =>
          /\ Len(drill.output) = Len(drill.time_list)
          /\ \A i \in 1..Len(drill.output) :
                /\ drill.output[i].time = drill.time_list[i]
                /\ drill.output[i].value = drill.data_[i]

\* get_time_list has returned its list.
TimeListReturned == drill.pc = "get_list_file"

\* C29: for time_begin < time_end every time of the list lies in
\* [time_begin, time_end], the first is time_begin and consecutive times
\* differ by forecast_hour_interval hours; otherwise the list is empty.
C29_TimeListWithinInterval ==
    TimeListReturned =>
        IF drill.time_begin < drill.time_end
        THEN /\ drill.time_list # <<>>
             /\ drill.time_list[1] = drill.time_begin
             /\ \A i \in 1..Len(drill.time_list) :
                   /\ drill.time_begin <= drill.time_list[i]
                   /\ drill.time_list[i] <= drill.time_end
             /\ \A i \in 1..(Len(drill.time_list) - 1) :
                   drill.time_list[i + 1] - drill.time_list[i] = drill.fh_int
        ELSE drill.time_list = <<>>

\* C30: every call of get_time_list ends with the list returned: the loop
\* that appends time steps reaches time_end, also for an interval of 0 or
\* less.
C30_TimeListTerminates ==
    (drill.pc = "get_time_list") ~> TimeListReturned

\* 'add' has run load_data for at least one file.
Loaded == loader.accepts # <<>>

\* C25: load_data returns True when the bulk indexing of the file succeeds
\* and False when it fails, so 'add' reports the generated features of every
\* file whose documents Elasticsearch accepts.
C25_LoadDataReturnsTrueOnSuccess ==
    Loaded =>
        LET n == Len(loader.accepts)
        IN  /\ loader.accepts[n] => loader.result = <<TRUE>>
            /\ ~loader.accepts[n] => loader.result = <<FALSE>>
            /\ Len(loader.reported) = n
            /\ loader.reported[n] = loader.accepts[n]

\* C27: when a layer file cannot be opened, get_new_array logs it and still
\* returns an array computed from the layers that could be read; it does not
\* end with an unbound-variable error.
C27_UnreadableLayerStillGivesArray ==
    (vigil.pc = "done" /\ Unreadable(vigil.readable) # {}
                       /\ vigil.gdal_exceptions) =>
        /\ vigil.logged = Unreadable(vigil.readable)
        /\ vigil.error = ""

\* the classes of the three threshold layers
C1Class(p) == IF p < 40 THEN 0 ELSE IF p < 60 THEN 1 ELSE 2

C2Class(p) ==
    IF p = 0 THEN 0 ELSE IF p < 20 THEN 3 ELSE IF p < 40 THEN 4
    ELSE IF p < 60 THEN 6 ELSE 7

C3Class(p) ==
    IF p = 0 THEN 0 ELSE IF p < 20 THEN 5 ELSE IF p < 40 THEN 8
    ELSE IF p < 60 THEN 9 ELSE 10

\* C28: for probabilities (p1, p2, p3) in 0..100, get_new_array returns
\* max(c1(p1), c2(p2), c3(p3)); no value recoded once is recoded again, and
\* the result lies in 0..10.
C28_VigilanceIsMaxOfClasses ==
    (vigil.pc = "done" /\ Unreadable(vigil.readable) = {}) =>
        /\ vigil.error = ""
        /\ vigil.result \in 0..10
        /\ \A c \in {C1Class(vigil.p[1]), C2Class(vigil.p[2]),
                     C3Class(vigil.p[3])} : vigil.result >= c
        /\ vigil.result \in {C1Class(vigil.p[1]), C2Class(vigil.p[2]),
                             C3Class(vigil.p[3])}

C28_Witness ==
    /\ vigil.pc = "done"
    /\ vigil.p = <<59, 60, 19>>
    /\ vigil.result = 7
====
